---- MODULE Spec2Model ----
(***************************************************************************)
(* Model of src/bin/reduce_challenge.rs: the reduction of a Powers of Tau  *)
(* challenge file to a smaller power, followed by the point validation of  *)
(* the reduced file.                                                       *)
(*                                                                         *)
(* Byte sizes and offsets are usize values of a 64-bit build.  TLC's       *)
(* integers have 32 bits, so a usize that counts bytes is kept as four     *)
(* 16-bit limbs, least significant first, and the arithmetic below wraps   *)
(* modulo 2^64 as release-build usize arithmetic does.  Point counts       *)
(* (at most 2^29) are plain integers.                                      *)
(***************************************************************************)
EXTENDS Integers, Sequences, FiniteSets, TLC

----------------------------------------------------------------------------
(* usize arithmetic on byte quantities                                     *)

Limb == 2^16

\* Carry propagation over four limb sums; the carry out of the top limb is
\* dropped (wrapping arithmetic).
U64Carry(a) ==
    LET s2 == a[2] + (a[1] \div Limb)
        s3 == a[3] + (s2 \div Limb)
        s4 == a[4] + (s3 \div Limb)
    IN  <<a[1] % Limb, s2 % Limb, s3 % Limb, s4 % Limb>>

\* A count or small size (0 <= n < 2^31) as a usize.
U64Of(n) == U64Carry(<<n, 0, 0, 0>>)

U64Add(a, b) == U64Carry(<<a[1] + b[1], a[2] + b[2], a[3] + b[3], a[4] + b[4]>>)

\* a - b modulo 2^64 (a + ~b + 1).
U64Sub(a, b) ==
    U64Carry(<<a[1] + (Limb - 1 - b[1]) + 1, a[2] + (Limb - 1 - b[2]),
               a[3] + (Limb - 1 - b[3]),     a[4] + (Limb - 1 - b[4])>>)

\* a * n for a small factor n (a point width).
U64Mul(a, n) == U64Carry(<<a[1] * n, a[2] * n, a[3] * n, a[4] * n>>)

U64Less(a, b) ==
    \/ a[4] < b[4]
    \/ a[4] = b[4] /\ a[3] < b[3]
    \/ a[4] = b[4] /\ a[3] = b[3] /\ a[2] < b[2]
    \/ a[4] = b[4] /\ a[3] = b[3] /\ a[2] = b[2] /\ a[1] < b[1]

U64LessEq(a, b) == a = b \/ U64Less(a, b)

\* a \div n for a small divisor n, by long division from the top limb.
U64Div(a, n) ==
    LET t4 == a[4]
        t3 == (t4 % n) * Limb + a[3]
        t2 == (t3 % n) * Limb + a[2]
        t1 == (t2 % n) * Limb + a[1]
    IN  <<t1 \div n, t2 \div n, t3 \div n, t4 \div n>>

\* The integer a usize below 2^31 stands for.
U64ToNat(a) == a[1] + a[2] * Limb

U64Zero == U64Of(0)

----------------------------------------------------------------------------
(* Ceremony parameters and the accumulator layout                          *)

\* Bls12CeremonyParameters: the widths of an uncompressed G1 and G2 point
\* of BLS12-381.
G1_UNCOMPRESSED_BYTE_SIZE == 96
G2_UNCOMPRESSED_BYTE_SIZE == 192

\* The hash that precedes the accumulator.
HashSize == 64

\* The powers detect_power_from_size tries, and the ceiling on target_power.
MinPower == 10
MaxPower == 27
TargetCeiling == 27

Sections == 1..5

SectionName(s) ==
    CASE s = 1 -> "tau_powers_g1"
      [] s = 2 -> "tau_powers_g2"
      [] s = 3 -> "alpha_tau_powers_g1"
      [] s = 4 -> "beta_tau_powers_g1"
      [] s = 5 -> "beta_g2"

\* The group of the points of a section: the type parameter of the call
\* that copies it, and the verify function applied to it.
SectionGroup(s) == IF s \in {2, 5} THEN "G2" ELSE "G1"

\* The point_size argument of the copy and skip calls of a section.
PointSize(s) ==
    IF s \in {2, 5} THEN G2_UNCOMPRESSED_BYTE_SIZE ELSE G1_UNCOMPRESSED_BYTE_SIZE

\* The width of G1Uncompressed / G2Uncompressed, which the validator reads.
EncodedSize(group) ==
    IF group = "G2" THEN G2_UNCOMPRESSED_BYTE_SIZE ELSE G1_UNCOMPRESSED_BYTE_SIZE

\* 1 << power
tau_powers_length(power) == 2^power

\* (tau_powers_length << 1) - 1
tau_powers_g1_length(power) == (tau_powers_length(power) * 2) - 1

\* The number of points of section s in an accumulator of the given power.
SectionCount(s, power) ==
    CASE s = 1 -> tau_powers_g1_length(power)
      [] s \in {2, 3, 4} -> tau_powers_length(power)
      [] s = 5 -> 1

SectionBytes(s, power) == U64Mul(U64Of(SectionCount(s, power)), PointSize(s))

\* Offset of section s from the start of the accumulator (s = 6: its end).
RECURSIVE SectionOffset(_, _)
SectionOffset(s, power) ==
    IF s = 1 THEN U64Zero
    ELSE U64Add(SectionOffset(s - 1, power), SectionBytes(s - 1, power))

LayoutBytes(power) == SectionOffset(6, power)

\* expected_size with the final beta_g2 point left out of the sum.
expected_size_without_beta_g2(power) ==
    LET g1 == G1_UNCOMPRESSED_BYTE_SIZE
        g2 == G2_UNCOMPRESSED_BYTE_SIZE
    IN  U64Add(U64Add(U64Add(
            U64Mul(U64Of(tau_powers_g1_length(power)), g1),
            U64Mul(U64Of(tau_powers_length(power)), g2)),
            U64Mul(U64Of(tau_powers_length(power)), g1)),
            U64Mul(U64Of(tau_powers_length(power)), g1))

\* expected_size of detect_power_from_size for one power.
expected_size(power) ==
    LET g1 == G1_UNCOMPRESSED_BYTE_SIZE
        g2 == G2_UNCOMPRESSED_BYTE_SIZE
    IN  U64Add(U64Add(U64Add(U64Add(
            U64Mul(U64Of(tau_powers_g1_length(power)), g1),
            U64Mul(U64Of(tau_powers_length(power)), g2)),
            U64Mul(U64Of(tau_powers_length(power)), g1)),
            U64Mul(U64Of(tau_powers_length(power)), g1)),
            U64Of(g2))

\* The result of detect_power_from_size when no power matches (it panics).
NoPower == 0 - 1

\* The scan of detect_power_from_size from `power` upwards.
RECURSIVE DetectFrom(_, _)
DetectFrom(power, accumulator_size) ==
    IF power > MaxPower THEN NoPower
    ELSE IF expected_size(power) = accumulator_size THEN power
    ELSE DetectFrom(power + 1, accumulator_size)

detect_power_from_size(accumulator_size) == DetectFrom(MinPower, accumulator_size)

----------------------------------------------------------------------------
(* File contents                                                           *)
(*                                                                         *)
(* The bytes of the input file are left uninterpreted: byte i of the input *)
(* is a value of its own.  The contents of a file written by the program   *)
(* are then a sequence of extents [src, len], each standing for the len    *)
(* input bytes from offset src on, with touching extents merged, so that   *)
(* two files hold the same bytes exactly when their sequences are equal.   *)

Extent(src, len) == [src |-> src, len |-> len]

\* The bytes of `data` followed by the bytes of extent e.
AppendExtent(data, e) ==
    IF e.len = U64Zero THEN data
    ELSE IF data # <<>> /\ U64Add(data[Len(data)].src, data[Len(data)].len) = e.src
         THEN [data EXCEPT ![Len(data)].len = U64Add(@, e.len)]
         ELSE Append(data, e)

RECURSIVE Concat(_, _)
Concat(data, more) ==
    IF more = <<>> THEN data
    ELSE Concat(AppendExtent(data, Head(more)), Tail(more))

\* The position in `data` at which extent i starts (i = Len + 1: the length).
RECURSIVE ExtentPos(_, _)
ExtentPos(data, i) ==
    IF i = 1 THEN U64Zero
    ELSE U64Add(ExtentPos(data, i - 1), data[i - 1].len)

FileLen(data) == ExtentPos(data, Len(data) + 1)

\* The whole input file of the given length, as contents.
InputContent(len) == AppendExtent(<<>>, Extent(U64Zero, len))

\* The len bytes of `data` at position pos are the len input bytes at src.
RangeIsCopyOf(data, pos, len, src) ==
    \E i \in 1..Len(data) :
        /\ U64LessEq(ExtentPos(data, i), pos)
        /\ U64LessEq(U64Add(pos, len), ExtentPos(data, i + 1))
        /\ U64Add(data[i].src, U64Sub(pos, ExtentPos(data, i))) = src

\* The positions in `data` that hold input byte `off`.
PositionsOf(data, off) ==
    { U64Add(ExtentPos(data, i), U64Sub(off, data[i].src)) :
        i \in { j \in 1..Len(data) :
                  /\ U64LessEq(data[j].src, off)
                  /\ U64Less(off, U64Add(data[j].src, data[j].len)) } }

----------------------------------------------------------------------------
(* Reader operations                                                       *)

\* The bytes left to a reader at `cursor` of a file of `len` bytes.
Available(cursor, len) ==
    IF U64Less(cursor, len) THEN U64Sub(len, cursor) ELSE U64Zero

\* read_exact of n bytes succeeds.
ReadExactOk(cursor, len, n) == U64LessEq(U64Of(n), Available(cursor, len))

\* The loop over 0..count of stream_copy_points and skip_points: the number
\* of whole points read before the loop ends, which is count unless a
\* read_exact meets the end of the file first.
PointsRead(cursor, len, count, point_size) ==
    IF U64LessEq(U64Mul(U64Of(count), point_size), Available(cursor, len))
    THEN count
    ELSE U64ToNat(U64Div(Available(cursor, len), point_size))

\* stream_copy_points with the loop started at 1: one point short.
stream_copy_points_from_one(cursor, len, count, point_size) ==
    LET n == PointsRead(cursor, len, count - 1, point_size)
        bytes == U64Mul(U64Of(n), point_size)
    IN  [ok      |-> n = count - 1,
         cursor  |-> IF n = count - 1 THEN U64Add(cursor, bytes) ELSE len,
         written |-> Extent(cursor, bytes)]

\* stream_copy_points: every point read is written; the first short read
\* returns the error.
stream_copy_points(cursor, len, count, point_size) ==
    LET n == PointsRead(cursor, len, count, point_size)
        bytes == U64Mul(U64Of(n), point_size)
    IN  [ok      |-> n = count,
         cursor  |-> IF n = count THEN U64Add(cursor, bytes) ELSE len,
         written |-> Extent(cursor, bytes)]

\* skip_points: as stream_copy_points, writing nothing.
skip_points(cursor, len, count, point_size) ==
    LET n == PointsRead(cursor, len, count, point_size)
    IN  [ok     |-> n = count,
         cursor |-> IF n = count THEN U64Add(cursor, U64Mul(U64Of(n), point_size))
                    ELSE len]

----------------------------------------------------------------------------
(* The decisions of main                                                   *)

\* target_power > 27
TargetAboveCeiling(target) == target > TargetCeiling

\* The comparison with the detected power, off by one.
TargetTooLargeOffByOne(target, current) == target > current + 1

\* target_power > current_power
TargetTooLarge(target, current) == target > current

\* The open with create(true) in place of create_new(true).
CreateNeverRefuses(origin) == FALSE

\* create_new(true): the open fails when the path exists.
CreateNewRefuses(origin) == origin # "absent"

\* The copy counts with tau_powers_g1 cut to target_tau_powers_length.
CopyCountPlainLength(s, target) ==
    CASE s \in {1, 2, 3, 4} -> tau_powers_length(target)
      [] s = 5 -> 1

\* The count argument of the stream_copy_points call of section s.
CopyCount(s, target) ==
    CASE s = 1 -> tau_powers_g1_length(target)
      [] s \in {2, 3, 4} -> tau_powers_length(target)
      [] s = 5 -> 1

\* The skip counts with that of tau_powers_g1 taken from the plain lengths.
SkipCountPlainLength(s, current, target) ==
    CASE s \in {1, 2, 3, 4} -> tau_powers_length(current) - tau_powers_length(target)
      [] s = 5 -> 0

\* skip_g1_points / skip_g2_points after the copy of section s; nothing is
\* skipped after beta_g2.
SkipCount(s, current, target) ==
    CASE s = 1 -> tau_powers_g1_length(current) - tau_powers_g1_length(target)
      [] s \in {2, 3, 4} -> tau_powers_length(current) - tau_powers_length(target)
      [] s = 5 -> 0

\* The count argument of the verify call of section s.
VerifyCount(s, target) ==
    CASE s = 1 -> tau_powers_g1_length(target)
      [] s \in {2, 3, 4} -> tau_powers_length(target)
      [] s = 5 -> 1

----------------------------------------------------------------------------
(* The point validator                                                     *)

\* The classification without the is_zero test.
PointRejectedUndecodable(what) == what = "invalid"

\* into_affine fails, or the decoded point is_zero.  `what` is what the
\* bytes of the point encode.
PointRejected(what) == what = "invalid" \/ what = "infinity"

\* verify_g1_points / verify_g2_points: the loop over 0..count reading one
\* encoded point of the group at a time from `data` at `cursor`, returning
\* at the first point that is rejected or cannot be read in full.  `marks`
\* are the input bytes that do not belong to the encoding of a valid point.
verify_points(data, cursor, group, count, marks) ==
    LET w == EncodedSize(group)
        len == FileLen(data)
        n == PointsRead(cursor, len, count, w)
        end == U64Add(cursor, U64Mul(U64Of(n), w))
        hits == UNION { { [index |-> U64ToNat(U64Div(U64Sub(pos, cursor), w)),
                           what  |-> m.what] :
                          pos \in { q \in PositionsOf(data, m.off) :
                                      U64LessEq(cursor, q) /\ U64Less(q, end) } } :
                        m \in { k \in marks : PointRejected(k.what) } }
        first == CHOOSE h \in hits : \A g \in hits : h.index <= g.index
    IN  IF hits # {}
        THEN [ok |-> FALSE, kind |-> first.what, group |-> group,
              index |-> first.index,
              cursor |-> U64Add(cursor, U64Mul(U64Of(first.index + 1), w))]
        ELSE IF n < count
        THEN [ok |-> FALSE, kind |-> "eof", group |-> group, index |-> n,
              cursor |-> len]
        ELSE [ok |-> TRUE, kind |-> "none", group |-> group, index |-> count,
              cursor |-> end]

----------------------------------------------------------------------------
(* State                                                                   *)

VARIABLES
    target_power,      \* args[3], parsed
    inLen,             \* the length of the input file on disk
    inLen0,            \* its length when the program started
    marks,             \* the input bytes that spoil a point (the file's content)
    shrinkTo,          \* the length another process truncates the input to, or <<>>
    outExisted,        \* a file was at the output path when the program started
    outOrigin,         \* "absent", "foreign" (the file found there) or "created"
    outFile,           \* the bytes on disk of the file the program created
    pc,                \* the statement main is at
    sec,               \* the section being copied, skipped or verified
    accumulator_size,
    current_power,
    inOpen, inCursor,  \* the BufReader over the input file
    outOpen, outBuf,   \* the BufWriter over the output file and its buffer
    rdOpen, rdCursor,  \* the BufReader of verify_reduced_challenge
    outcome,           \* "running", "success", "exit", "panic" or "error"
    error              \* what the run reported when it failed

vars == <<target_power, inLen, inLen0, marks, shrinkTo, outExisted, outOrigin,
          outFile, pc, sec, accumulator_size, current_power, inOpen, inCursor,
          outOpen, outBuf, rdOpen, rdCursor, outcome, error>>

NoError == [kind |-> "none", group |-> "", index |-> 0 - 1]
Failure(kind) == [kind |-> kind, group |-> "", index |-> 0 - 1]

----------------------------------------------------------------------------
(* Inputs                                                                  *)

MaxDelta == 1          \* input sizes are tried this many bytes off a layout
MaxTarget == 28        \* target_power arguments tried
MaxMarks == 2          \* spoiled points in one input file
MaxMarkIndex == 1      \* highest leading index of a spoiled point
MarkTargets == 1       \* spoiled inputs are reduced by at most this many powers

BuiltPowers == (MinPower - 1)..(MaxPower + 1)

Shift(a, d) == IF d >= 0 THEN U64Add(a, U64Of(d)) ELSE U64Sub(a, U64Of(0 - d))

\* The size of a challenge file of power p.
ChallengeSize(p) == U64Add(U64Of(HashSize), LayoutBytes(p))

\* The file offset of point idx of section s in a challenge of power p.
PointOffset(s, idx, p) ==
    U64Add(U64Add(U64Of(HashSize), SectionOffset(s, p)),
           U64Mul(U64Of(idx), PointSize(s)))

\* The points of a challenge of power p that inputs are spoiled at: the
\* leading points and the last point of every section.
MarkPoints(p) ==
    { sp \in (Sections \X (0..MaxMarkIndex))
             \cup { <<s, SectionCount(s, p) - 1>> : s \in Sections } :
        sp[2] < SectionCount(sp[1], p) }

\* A spoiled point: the last byte of point idx of section s is corrupted
\* ("invalid": the point no longer decodes) or the point is the encoding of
\* the point at infinity ("infinity").
Mark(sp, p, what) ==
    [sec |-> sp[1], idx |-> sp[2], what |-> what,
     off |-> U64Add(PointOffset(sp[1], sp[2], p), U64Of(PointSize(sp[1]) - 1))]

\* The lengths the input is truncated to behind the program's back: inside
\* the hash, inside the second point of a section, and inside the first
\* skipped point of a section.
ShrinkLengths(p, t) ==
    {U64Of(HashSize - 1)}
    \cup { U64Add(PointOffset(s, 1, p), U64Of(1)) : s \in Sections }
    \cup { U64Add(PointOffset(s, CopyCount(s, t), p), U64Of(1)) : s \in Sections }

InitWith(t, len, ms, shrink, existed) ==
    /\ target_power = t
    /\ inLen = len
    /\ inLen0 = len
    /\ marks = ms
    /\ shrinkTo = shrink
    /\ outExisted = existed
    /\ outOrigin = IF existed THEN "foreign" ELSE "absent"
    /\ outFile = <<>>
    /\ pc = "start"
    /\ sec = 0
    /\ accumulator_size = U64Zero
    /\ current_power = NoPower
    /\ inOpen = FALSE
    /\ inCursor = U64Zero
    /\ outOpen = FALSE
    /\ outBuf = <<>>
    /\ rdOpen = FALSE
    /\ rdCursor = U64Zero
    /\ outcome = "running"
    /\ error = NoError

\* Any file size at or next to a challenge size, or shorter than the hash,
\* any target_power, with or without a file at the output path.
InitSizes ==
    \E t \in 0..MaxTarget, existed \in BOOLEAN :
        \/ \E p \in BuiltPowers, d \in (0 - MaxDelta)..MaxDelta :
              InitWith(t, Shift(ChallengeSize(p), d), {}, <<>>, existed)
        \/ \E n \in {0, HashSize - 1, HashSize} :
              InitWith(t, U64Of(n), {}, <<>>, existed)

\* A challenge of the smallest power with spoiled points, reduced to the
\* smallest target or by a few powers.
InitSpoiled ==
    \E t \in {0} \cup ((MinPower - MarkTargets)..MinPower),
       what \in {"invalid", "infinity"} :
        \E ps \in SUBSET MarkPoints(MinPower) :
            /\ ps # {}
            /\ Cardinality(ps) <= MaxMarks
            /\ InitWith(t, ChallengeSize(MinPower),
                        { Mark(sp, MinPower, what) : sp \in ps }, <<>>, FALSE)

\* A challenge of the smallest power that another process truncates.
InitShrinking ==
    \E t \in 0..MinPower :
        \E shrink \in ShrinkLengths(MinPower, t) :
            InitWith(t, ChallengeSize(MinPower), {}, shrink, FALSE)

Init == InitSizes \/ InitSpoiled \/ InitShrinking

----------------------------------------------------------------------------
(* The ends of a run                                                       *)

\* The process ends.  `flushed` is what the BufWriter's destructor writes
\* on its way out (nothing when no destructor runs).
Terminate(how, err, flushed) ==
    /\ pc' = "done"
    /\ outcome' = how
    /\ error' = err
    /\ outFile' = Concat(outFile, flushed)
    /\ outBuf' = <<>>
    /\ inOpen' = FALSE
    /\ outOpen' = FALSE
    /\ rdOpen' = FALSE

----------------------------------------------------------------------------
(* main                                                                    *)

\* Lines 22-27: the ceiling on target_power; std::process::exit(1).
ParseArgs ==
    /\ pc = "start"
    /\ IF TargetAboveCeiling(target_power)
       THEN /\ Terminate("exit", Failure("TargetCeiling"), <<>>)
            /\ UNCHANGED <<sec, inCursor, rdCursor>>
       ELSE /\ pc' = "stat"
            /\ UNCHANGED <<outcome, error, outFile, outBuf, inOpen, outOpen,
                           rdOpen, sec, inCursor, rdCursor>>
    /\ UNCHANGED <<target_power, inLen, inLen0, marks, shrinkTo, outExisted,
                   outOrigin, accumulator_size, current_power>>

\* Lines 39-46: the file size, accumulator_size = input_file_size - 64 and
\* the detection of the power.  The subtraction of a size below 64 panics
\* in a build with overflow checks and wraps in one without.
StatInput ==
    /\ pc = "stat"
    /\ \E checked \in BOOLEAN :
          LET underflow == U64Less(inLen, U64Of(HashSize))
              size == U64Sub(inLen, U64Of(HashSize))
              power == detect_power_from_size(size)
          IN  IF underflow /\ checked
              THEN /\ Terminate("panic", Failure("Underflow"), <<>>)
                   /\ UNCHANGED <<accumulator_size, current_power>>
              ELSE /\ accumulator_size' = size
                   /\ current_power' = power
                   /\ IF power = NoPower
                      THEN Terminate("panic", Failure("UnsupportedSize"), <<>>)
                      ELSE /\ pc' = "check_target"
                           /\ UNCHANGED <<outcome, error, outFile, outBuf,
                                          inOpen, outOpen, rdOpen>>
    /\ UNCHANGED <<target_power, inLen, inLen0, marks, shrinkTo, outExisted,
                   outOrigin, sec, inCursor, rdCursor>>

\* Lines 56-59: the target must not exceed the detected power.
CheckTarget ==
    /\ pc = "check_target"
    /\ IF TargetTooLarge(target_power, current_power)
       THEN Terminate("exit", Failure("TargetTooLarge"), <<>>)
       ELSE /\ pc' = "open_input"
            /\ UNCHANGED <<outcome, error, outFile, outBuf, inOpen, outOpen,
                           rdOpen>>
    /\ UNCHANGED <<target_power, inLen, inLen0, marks, shrinkTo, outExisted,
                   outOrigin, sec, accumulator_size, current_power, inCursor,
                   rdCursor>>

\* Lines 68-73: the input is opened for reading.
OpenInput ==
    /\ pc = "open_input"
    /\ pc' = "create_output"
    /\ inOpen' = TRUE
    /\ inCursor' = U64Zero
    /\ UNCHANGED <<target_power, inLen, inLen0, marks, shrinkTo, outExisted,
                   outOrigin, outFile, sec, accumulator_size, current_power,
                   outOpen, outBuf, rdOpen, rdCursor, outcome, error>>

\* Lines 75-81: the output is opened with create_new; the expect panics
\* when the open fails.
CreateOutput ==
    /\ pc = "create_output"
    /\ IF CreateNewRefuses(outOrigin)
       THEN /\ Terminate("panic", Failure("OutputExists"), <<>>)
            /\ UNCHANGED outOrigin
       ELSE /\ pc' = "copy_hash"
            /\ outOrigin' = "created"
            /\ outFile' = <<>>
            /\ outOpen' = TRUE
            /\ outBuf' = <<>>
            /\ UNCHANGED <<outcome, error, inOpen, rdOpen>>
    /\ UNCHANGED <<target_power, inLen, inLen0, marks, shrinkTo, outExisted,
                   sec, accumulator_size, current_power, inCursor, rdCursor>>

\* Lines 84-86: the 64-byte hash is read and written; the expect panics on
\* a short read, and the unwinding drops the BufWriter.
CopyHash ==
    /\ pc = "copy_hash"
    /\ IF ReadExactOk(inCursor, inLen, HashSize)
       THEN /\ pc' = "copy"
            /\ sec' = 1
            /\ inCursor' = U64Add(inCursor, U64Of(HashSize))
            /\ outBuf' = AppendExtent(outBuf, Extent(inCursor, U64Of(HashSize)))
            /\ UNCHANGED <<outcome, error, outFile, inOpen, outOpen, rdOpen>>
       ELSE /\ Terminate("panic", Failure("ReadHash"), outBuf)
            /\ UNCHANGED <<sec, inCursor>>
    /\ UNCHANGED <<target_power, inLen, inLen0, marks, shrinkTo, outExisted,
                   outOrigin, accumulator_size, current_power, rdCursor>>

\* Lines 90, 100, 110, 120, 129: the retained points of a section are
\* copied; an error is returned from main by `?`, which drops the BufWriter.
CopySection ==
    /\ pc = "copy"
    /\ LET r == stream_copy_points(inCursor, inLen, CopyCount(sec, target_power),
                                   PointSize(sec))
       IN  /\ inCursor' = r.cursor
           /\ IF r.ok
              THEN /\ pc' = IF sec = 5 THEN "flush" ELSE "skip"
                   /\ outBuf' = AppendExtent(outBuf, r.written)
                   /\ UNCHANGED <<outcome, error, outFile, inOpen, outOpen, rdOpen>>
              ELSE Terminate("error", Failure("Truncated"),
                             AppendExtent(outBuf, r.written))
    /\ UNCHANGED <<target_power, inLen, inLen0, marks, shrinkTo, outExisted,
                   outOrigin, sec, accumulator_size, current_power, rdCursor>>

\* Lines 93-96, 103-106, 113-116, 123-125: the rest of the section is read
\* and dropped when there is one.
SkipSection ==
    /\ pc = "skip"
    /\ LET count == SkipCount(sec, current_power, target_power)
           r == IF count > 0
                THEN skip_points(inCursor, inLen, count, PointSize(sec))
                ELSE [ok |-> TRUE, cursor |-> inCursor]
       IN  /\ inCursor' = r.cursor
           /\ IF r.ok
              THEN /\ pc' = "copy"
                   /\ sec' = sec + 1
                   /\ UNCHANGED <<outcome, error, outFile, outBuf, inOpen,
                                  outOpen, rdOpen>>
              ELSE /\ Terminate("error", Failure("Truncated"), outBuf)
                   /\ UNCHANGED sec
    /\ UNCHANGED <<target_power, inLen, inLen0, marks, shrinkTo, outExisted,
                   outOrigin, accumulator_size, current_power, rdCursor>>

\* Lines 131-133: output.flush().
Flush ==
    /\ pc = "flush"
    /\ pc' = "verify_open"
    /\ outFile' = Concat(outFile, outBuf)
    /\ outBuf' = <<>>
    /\ UNCHANGED <<target_power, inLen, inLen0, marks, shrinkTo, outExisted,
                   outOrigin, sec, accumulator_size, current_power, inOpen,
                   inCursor, outOpen, rdOpen, rdCursor, outcome, error>>

----------------------------------------------------------------------------
(* verify_reduced_challenge                                                *)

\* Lines 190-199: the output path is opened for reading and the hash is
\* read over.
VerifyOpen ==
    /\ pc = "verify_open"
    /\ IF ReadExactOk(U64Zero, FileLen(outFile), HashSize)
       THEN /\ pc' = "verify"
            /\ sec' = 1
            /\ rdOpen' = TRUE
            /\ rdCursor' = U64Of(HashSize)
            /\ UNCHANGED <<outcome, error, outFile, outBuf, inOpen, outOpen>>
       ELSE /\ Terminate("error", Failure("eof"), outBuf)
            /\ rdCursor' = FileLen(outFile)
            /\ UNCHANGED sec
    /\ UNCHANGED <<target_power, inLen, inLen0, marks, shrinkTo, outExisted,
                   outOrigin, accumulator_size, current_power, inCursor>>

\* Lines 206-219: the points of one section are read and checked.  The
\* error names the group and the index, as the messages of
\* verify_g1_points and verify_g2_points do.
VerifySection ==
    /\ pc = "verify"
    /\ LET r == verify_points(outFile, rdCursor, SectionGroup(sec),
                              VerifyCount(sec, target_power), marks)
       IN  /\ rdCursor' = r.cursor
           /\ IF r.ok
              THEN /\ pc' = IF sec = 5 THEN "verified" ELSE "verify"
                   /\ sec' = IF sec = 5 THEN sec ELSE sec + 1
                   /\ UNCHANGED <<outcome, error, outFile, outBuf, inOpen,
                                  outOpen, rdOpen>>
              ELSE /\ Terminate("error",
                                [kind |-> r.kind, group |-> r.group,
                                 index |-> r.index], outBuf)
                   /\ UNCHANGED sec
    /\ UNCHANGED <<target_power, inLen, inLen0, marks, shrinkTo, outExisted,
                   outOrigin, accumulator_size, current_power, inCursor>>

\* Lines 221-226 and 137: the validator and main return Ok(()).
Finish ==
    /\ pc = "verified"
    /\ Terminate("success", NoError, outBuf)
    /\ UNCHANGED <<target_power, inLen, inLen0, marks, shrinkTo, outExisted,
                   outOrigin, sec, accumulator_size, current_power, inCursor,
                   rdCursor>>

----------------------------------------------------------------------------
(* The environment                                                         *)

\* Another process truncates the input file after its size was taken and
\* before the copy has ended.
InputShrinks ==
    /\ pc \in {"check_target", "open_input", "create_output", "copy_hash",
               "copy", "skip"}
    /\ shrinkTo # <<>>
    /\ U64Less(shrinkTo, inLen)
    /\ inLen' = shrinkTo
    /\ shrinkTo' = <<>>
    /\ UNCHANGED <<target_power, inLen0, marks, outExisted, outOrigin, outFile,
                   pc, sec, accumulator_size, current_power, inOpen, inCursor,
                   outOpen, outBuf, rdOpen, rdCursor, outcome, error>>

\* The BufWriter writes its buffer through when it has filled up.
BufWriterSpill ==
    /\ pc \in {"copy", "skip", "flush"}
    /\ outOpen
    /\ outBuf # <<>>
    /\ outFile' = Concat(outFile, outBuf)
    /\ outBuf' = <<>>
    /\ UNCHANGED <<target_power, inLen, inLen0, marks, shrinkTo, outExisted,
                   outOrigin, pc, sec, accumulator_size, current_power, inOpen,
                   inCursor, outOpen, rdOpen, rdCursor, outcome, error>>

Next ==
    \/ ParseArgs
    \/ StatInput
    \/ CheckTarget
    \/ OpenInput
    \/ CreateOutput
    \/ CopyHash
    \/ CopySection
    \/ SkipSection
    \/ Flush
    \/ VerifyOpen
    \/ VerifySection
    \/ Finish
    \/ InputShrinks
    \/ BufWriterSpill

Spec == Init /\ [][Next]_vars

----------------------------------------------------------------------------
(* Properties                                                              *)

\* The reducer has run to its end: the output is written and flushed.
Reduced ==
    \/ pc \in {"verify_open", "verify", "verified"}
    \/ pc = "done" /\ (outcome = "success"
                       \/ error.kind \in {"invalid", "infinity", "eof"})

\* The layout, tabulated for the powers the properties speak of: where
\* section s starts in a challenge file of a power (s = 6: the file's
\* size), the size of its accumulator, and expected_size.
TabulatedPowers == 0..(MaxPower + 1)

SectionStarts ==
    [power \in TabulatedPowers |->
        [s \in 1..6 |-> U64Add(U64Of(HashSize), SectionOffset(s, power))]]

AccumulatorSizes == [power \in TabulatedPowers |-> LayoutBytes(power)]

ExpectedSizes == [power \in TabulatedPowers |-> expected_size(power)]

SectionStart(s, power) == SectionStarts[power][s]

SupportedPowers == MinPower..MaxPower

\* C1. Truncation correctness: once a reduction has succeeded, the input
\* was a challenge of the detected power c in 10..27, the target t is at
\* most c, the first 64 bytes of the output are the 64 bytes of the input's
\* hash, and what follows them has exactly expected_size(t) bytes.
ThmTruncation ==
    Reduced =>
        /\ current_power \in MinPower..MaxPower
        /\ target_power <= current_power
        /\ inLen0 = U64Add(U64Of(HashSize), ExpectedSizes[current_power])
        /\ RangeIsCopyOf(outFile, U64Zero, U64Of(HashSize), U64Zero)
        /\ U64LessEq(U64Of(HashSize), FileLen(outFile))
        /\ U64Sub(FileLen(outFile), U64Of(HashSize)) = ExpectedSizes[target_power]

WitTruncation ==
    /\ pc = "done"
    /\ outcome = "success"
    /\ current_power = MaxPower
    /\ target_power < MinPower

\* C2. Prefix preservation: in a reduced output every section holds, in
\* order, the leading points of the same section of the input (so point j
\* of the output section is point j of the input section for every j below
\* the retained count), and the input cursor stands at the first byte of
\* section s whenever the copy of section s starts, just behind the
\* retained points when its skip starts, and at the end of the input when
\* the last section has been copied.
ThmPrefix ==
    /\ Reduced =>
          \A s \in Sections :
              RangeIsCopyOf(outFile, SectionStart(s, target_power),
                            SectionBytes(s, target_power),
                            SectionStart(s, current_power))
    /\ pc = "copy" => inCursor = SectionStart(sec, current_power)
    /\ pc = "skip" => inCursor = U64Add(SectionStart(sec, current_power),
                                        SectionBytes(sec, target_power))
    /\ pc = "flush" => inCursor = SectionStart(6, current_power)

WitPrefix ==
    /\ pc = "verify_open"
    /\ target_power < current_power
    /\ Len(outFile) = 5

\* C3. Idempotence under equal power: when the target is the detected
\* power nothing is skipped and the reduced output holds exactly the bytes
\* of the whole input file.
ThmIdempotent ==
    (Reduced /\ target_power = current_power) =>
        /\ \A s \in Sections : SkipCount(s, current_power, target_power) = 0
        /\ outFile = InputContent(inLen0)

WitIdempotent ==
    /\ pc = "done"
    /\ outcome = "success"
    /\ target_power = current_power
    /\ inCursor = inLen0

\* The detector has been applied to accumulator_size.
Detected == pc \notin {"start", "stat"} /\ error.kind \notin {"TargetCeiling", "Underflow"}

\* C4. Round-trip size law: expected_size is strictly increasing over
\* 10..27; applied to the size of the accumulator of a challenge of power p
\* in 10..27 the detector returns p, and applied to any other size it
\* returns no power and the run panics.
ThmDetect ==
    /\ \A p \in MinPower..(MaxPower - 1) :
          U64Less(ExpectedSizes[p], ExpectedSizes[p + 1])
    /\ Detected =>
          /\ \A p \in SupportedPowers :
                accumulator_size = AccumulatorSizes[p] => current_power = p
          /\ (\A p \in SupportedPowers : accumulator_size # AccumulatorSizes[p]) =>
                /\ current_power = NoPower
                /\ pc = "done"
                /\ outcome = "panic"
                /\ error.kind = "UnsupportedSize"

WitDetect ==
    /\ pc = "check_target"
    /\ current_power = MaxPower
    /\ accumulator_size = AccumulatorSizes[MaxPower]

\* The request fails a pre-check: the target is above the ceiling, the
\* input is the challenge of no supported power, or the target is above
\* the power of the input.
Unacceptable ==
    \/ target_power > TargetCeiling
    \/ \A p \in SupportedPowers : inLen0 # SectionStart(6, p)
    \/ \E p \in SupportedPowers : inLen0 = SectionStart(6, p) /\ target_power > p

\* C5. No output before the pre-checks have passed: a run whose request
\* fails a pre-check never creates, opens or writes the output file, and it
\* ends by exit(1) or a panic that names the failed pre-check.
ThmNoOutputOnRejection ==
    Unacceptable =>
        /\ outOrigin = (IF outExisted THEN "foreign" ELSE "absent")
        /\ outFile = <<>>
        /\ outBuf = <<>>
        /\ ~outOpen
        /\ pc = "done" =>
              /\ outcome \in {"exit", "panic"}
              /\ error.kind \in {"TargetCeiling", "Underflow", "UnsupportedSize",
                                 "TargetTooLarge"}

WitNoOutputOnRejection ==
    /\ pc = "done"
    /\ error.kind = "TargetTooLarge"
    /\ target_power <= TargetCeiling
    /\ ~outExisted

\* C6. No overwrite: when a file is at the output path at the start, the
\* run never opens or writes it, never succeeds, and, when the pre-checks
\* pass, ends with the panic of the failed create_new.
ThmNoOverwrite ==
    outExisted =>
        /\ outOrigin = "foreign"
        /\ outFile = <<>>
        /\ outBuf = <<>>
        /\ ~outOpen
        /\ pc \notin {"copy_hash", "copy", "skip", "flush", "verify_open",
                      "verify", "verified"}
        /\ pc = "done" =>
              /\ outcome \in {"exit", "panic"}
              /\ ~Unacceptable => error.kind = "OutputExists"

WitNoOverwrite ==
    /\ outExisted
    /\ pc = "done"
    /\ error.kind = "OutputExists"

\* The spoiled points that a reduction to target_power retains.
RetainedMarks == { m \in marks : m.idx < SectionCount(m.sec, target_power) }

\* The first of them, in section order and then index order.
FirstRetainedMark ==
    CHOOSE m \in RetainedMarks :
        \A n \in RetainedMarks :
            m.sec < n.sec \/ (m.sec = n.sec /\ m.idx <= n.idx)

\* The sections an error of the validator can be about, going by what the
\* error says: the group of the point.
SectionsOfError(err) == { s \in Sections : SectionGroup(s) = err.group }

\* What does hold of the validator: it stops at the first spoiled point,
\* having read no byte behind it, and its error gives the group of that
\* point's section and the index of the point in the section.
ValidatorStopsAtFirst ==
    error.kind \in {"invalid", "infinity"} =>
        /\ RetainedMarks # {}
        /\ error.kind = FirstRetainedMark.what
        /\ error.group = SectionGroup(FirstRetainedMark.sec)
        /\ error.index = FirstRetainedMark.idx
        /\ rdCursor = U64Add(SectionStart(FirstRetainedMark.sec, target_power),
                             U64Mul(U64Of(FirstRetainedMark.idx + 1),
                                    PointSize(FirstRetainedMark.sec)))

\* C7. Validator fail-fast with location: when the validator rejects a
\* point, its error identifies exactly the section of the first spoiled
\* point of the output, and that point's index in the section.
CexValidatorLocation ==
    error.kind \in {"invalid", "infinity"} =>
        /\ SectionsOfError(error) = {FirstRetainedMark.sec}
        /\ error.index = FirstRetainedMark.idx

\* C8. Success only of a complete and valid output: a run that succeeds has
\* read an input that kept its length, has copied all five sections in full
\* and has retained no spoiled point; a run that met a short read while
\* copying or skipping ends as a failure without the validator having run,
\* and leaves the part of the output it had written on disk.
ThmSuccessOnlyIfValid ==
    /\ outcome = "success" =>
          /\ inLen = inLen0
          /\ FileLen(outFile) = SectionStart(6, target_power)
          /\ inCursor = inLen0
          /\ outBuf = <<>>
          /\ RetainedMarks = {}
          /\ \A m \in marks : PositionsOf(outFile, m.off) = {}
    /\ inLen # inLen0 => outcome \in {"running", "error", "panic"}
    /\ error.kind \in {"Truncated", "ReadHash"} =>
          /\ pc = "done"
          /\ outcome \in {"error", "panic"}
          /\ ~rdOpen /\ rdCursor = U64Zero
          /\ outOrigin = "created"
          /\ outBuf = <<>>
          /\ U64Less(FileLen(outFile), SectionStart(6, target_power))
          /\ outFile # <<>> => RangeIsCopyOf(outFile, U64Zero, U64Of(HashSize), U64Zero)

WitSuccessOnlyIfValid ==
    /\ pc = "done"
    /\ error.kind = "Truncated"
    /\ Len(outFile) > 1

\* C9. Phase-scoped handles: while the validator has the output open for
\* reading, every byte of the output has been flushed and the reducer has
\* closed its handle on the output file.
CexWriterClosed ==
    rdOpen => (outBuf = <<>> /\ ~outOpen)

\* What does hold: the output is flushed and complete when the validator
\* opens it.
ValidatorReadsFlushed ==
    rdOpen => (outBuf = <<>> /\ FileLen(outFile) = SectionStart(6, target_power))

\* C10. The output of a successful run is a recognized challenge of the
\* requested power: the detector, applied to the size of its accumulator,
\* returns target_power.
CexOutputRecognized ==
    outcome = "success" =>
        detect_power_from_size(U64Sub(FileLen(outFile), U64Of(HashSize))) = target_power

\* What does hold: it is recognized when the target is a supported power.
OutputRecognizedFromMinPower ==
    (outcome = "success" /\ target_power >= MinPower) =>
        detect_power_from_size(U64Sub(FileLen(outFile), U64Of(HashSize))) = target_power

====
